---- MODULE Spec2Model ----
(***************************************************************************)
(* Model of the URL shortener worker of src/index.js: the fetch router,    *)
(* handleCreate, handleRedirect, isValidUrl, generateRandomId and the KV   *)
(* namespace env.URL_KV they read and write.                               *)
(*                                                                         *)
(* Strings are sequences of one-character strings, so that slice, the      *)
(* custom-id regular expression, URL parsing and id generation are         *)
(* computed character by character.  The JavaScript values undefined and   *)
(* null are the two sequences below, which are not strings of the model    *)
(* (their single element is longer than one character).                    *)
(***************************************************************************)
EXTENDS Integers, Sequences, FiniteSets, TLC

undefined == <<"undefined">>
null == <<"null">>

\* Number of requests the worker receives in one behaviour.
MaxReq == 2

Reqs == 1..MaxReq

\* ------------------------------------------------------------------------
\* Pure helpers

\* const chars = 'abc...XYZ0123456789' (generateRandomId)
chars ==
  << "a","b","c","d","e","f","g","h","i","j","k","l","m",
     "n","o","p","q","r","s","t","u","v","w","x","y","z",
     "A","B","C","D","E","F","G","H","I","J","K","L","M",
     "N","O","P","Q","R","S","T","U","V","W","X","Y","Z",
     "0","1","2","3","4","5","6","7","8","9" >>

\* The length argument of the call generateRandomId(6).
IdLength == 6

Range(s) == { s[i] : i \in 1..Len(s) }

IndexOf(c) == CHOOSE i \in 1..Len(chars) : chars[i] = c

IsLower(c) == c \in Range(chars) /\ IndexOf(c) <= 26
IsUpper(c) == c \in Range(chars) /\ IndexOf(c) > 26 /\ IndexOf(c) <= 52
IsDigit(c) == c \in Range(chars) /\ IndexOf(c) > 52
IsAlpha(c) == IsLower(c) \/ IsUpper(c)

\* ASCII lower-casing, as the URL serializer applies to the scheme.
ToLower(c) == IF IsUpper(c) THEN chars[IndexOf(c) - 26] ELSE c

\* JavaScript truthiness of a string, undefined or null.
Truthy(v) == v # undefined /\ v # null /\ v # << >>

\* The regular expression without its anchors: one allowed character anywhere.
CustomIdRegexTestUnanchored(s) ==
  \E i \in 1..Len(s) : s[i] \in Range(chars) \cup {"_", "-"}

\* A test for one path segment: any characters but '/'.
CustomIdRegexTestSegment(s) ==
  /\ Len(s) >= 1
  /\ \A i \in 1..Len(s) : s[i] # "/"

\* /^[a-zA-Z0-9_-]+$/.test(shortId)
CustomIdRegexTest(s) ==
  /\ Len(s) >= 1
  /\ \A i \in 1..Len(s) : s[i] \in Range(chars) \cup {"_", "-"}

\* Position of the first ':' of s, 0 when there is none.
FirstColon(s) ==
  IF \E i \in 1..Len(s) : s[i] = ":"
  THEN CHOOSE i \in 1..Len(s) : s[i] = ":" /\ \A j \in 1..(i-1) : s[j] # ":"
  ELSE 0

\* new URL(url) without a base: the input must start with a scheme
\* (a letter, then letters, digits, '+', '-', '.') followed by ':'.
\* Inputs of the model use a non-special scheme, whose remainder is an
\* opaque path that always parses.
HasScheme(s) ==
  /\ s # undefined /\ s # null
  /\ FirstColon(s) >= 2
  /\ IsAlpha(s[1])
  /\ \A j \in 2..(FirstColon(s) - 1) :
        IsAlpha(s[j]) \/ IsDigit(s[j]) \/ s[j] \in {"+", "-", "."}

\* A check for a non-empty value instead of a parse.
isValidUrlNonEmpty(url) == Truthy(url)

isValidUrl(url) == HasScheme(url)

\* href of new URL(url): the scheme is lower-cased, the opaque remainder kept.
UrlHref(url) ==
  [ i \in 1..Len(url) |-> IF i < FirstColon(url) THEN ToLower(url[i]) ELSE url[i] ]

\* The loop stopping one iteration early.
generateRandomIdShort(length, draws) == [ i \in 1..(length - 1) |-> chars[draws[i] + 1] ]

\* generateRandomId(length): draws[i] is Math.floor(Math.random() * chars.length)
\* of iteration i.
generateRandomId(length, draws) == [ i \in 1..length |-> chars[draws[i] + 1] ]

\* url.pathname.slice(1)
Slice1(s) == IF Len(s) = 0 THEN << >> ELSE SubSeq(s, 2, Len(s))

\* ------------------------------------------------------------------------
\* Inputs

RootPath == << "/" >>
IndexPath == << "/","i","n","d","e","x",".","h","t","m","l" >>
ApiCreatePath == << "/","a","p","i","/","c","r","e","a","t","e" >>

IdA == << "a","a","a","a","a","a" >>
Id9 == << "9","9","9","9","9","9" >>
BadId == << "a", " ", "!" >>

\* Sequences of values of Math.floor(Math.random() * chars.length) that the
\* random source produces in one call of generateRandomId.
RandomDraws == { [i \in 1..IdLength |-> 0], [i \in 1..IdLength |-> Len(chars) - 1] }

UrlA == << "h", ":", "a" >>
UrlB == << "H", ":", "b" >>
NotAUrl == << "n", "o", " ", "u" >>

CustomIds == { undefined, << >>, IdA, BadId }

\* The origin of request.url.
Origin == << "s", ":", "/", "/", "o" >>

\* A request body: text that request.json() cannot parse, or the object
\* it parses to.
NoBody == [ parseable |-> FALSE, longUrl |-> undefined, customId |-> undefined ]

Body(longUrl, customId) == [ parseable |-> TRUE, longUrl |-> longUrl, customId |-> customId ]

\* The bodies posted: unparseable text; no custom id and an empty one; the
\* same custom id with two URLs; a malformed custom id; an invalid URL with
\* every kind of custom id.
Bodies ==
  { NoBody,
    Body(UrlA, undefined), Body(UrlB, << >>),
    Body(UrlA, IdA), Body(UrlB, IdA),
    Body(UrlA, BadId) }
  \cup { Body(NotAUrl, c) : c \in CustomIds }

Requests ==
  [ method : {"GET"},
    pathname : { RootPath, IndexPath, ApiCreatePath, <<"/">> \o IdA, <<"/">> \o Id9 },
    body : { NoBody } ]
  \cup [ method : {"DELETE"}, pathname : { ApiCreatePath }, body : { NoBody } ]
  \cup [ method : {"POST"}, pathname : { ApiCreatePath }, body : Bodies ]

NoRequest == [ method |-> "", pathname |-> << >>, body |-> NoBody ]

\* new Response(...) / Response.redirect(...): status, plain-text body,
\* the JSON body's shortUrl and longUrl, and the Location header.
Response(status, text, shortUrl, longUrl, location) ==
  [ status |-> status, text |-> text, shortUrl |-> shortUrl,
    longUrl |-> longUrl, location |-> location ]

NoResponse == Response(0, "", undefined, undefined, undefined)

TextResponse(status, text) == Response(status, text, undefined, undefined, undefined)

\* ------------------------------------------------------------------------
\* State

VARIABLES
  request,    \* request[r]: the request of slot r, NoRequest before it arrives
  pc,         \* pc[r]: where the handler of r stands
  shortId,    \* shortId[r]: local variable shortId of handleCreate
  resp,       \* resp[r]: the response returned for r, NoResponse before
  store,      \* env.URL_KV: function from the keys present to their values
  put,        \* put[r]: the env.URL_KV.put call of r passed to ctx.waitUntil:
              \* its state and its arguments
  kvReads,    \* kvReads[r]: number of env.URL_KV.get calls issued by r
  kvPuts,     \* kvPuts[r]: number of env.URL_KV.put calls issued by r
  getRejected, \* getRejected[r]: the env.URL_KV.get call of r rejected
  writer,     \* writer[k]: the request whose put wrote store[k]
  before      \* before[r]: the creates of the id r names that had been answered 201
              \* when r arrived

vars == << request, pc, shortId, resp, store, put, kvReads, kvPuts, getRejected,
          writer, before >>

\* env.URL_KV.get(key) resolves to the value, or null when the key is absent.
KVGet(kv, key) == IF key \in DOMAIN kv THEN kv[key] ELSE null

\* A put that keeps the value of a key already present.
KVPutIfAbsent(kv, key, value) ==
  [ k \in DOMAIN kv \cup {key} |-> IF k \in DOMAIN kv THEN kv[k] ELSE value ]

\* env.URL_KV.put(key, value) writes unconditionally.
KVPut(kv, key, value) ==
  [ k \in DOMAIN kv \cup {key} |-> IF k = key THEN value ELSE kv[k] ]

NoPut == [ state |-> "none", key |-> undefined, value |-> undefined ]

Init ==
  /\ request = [ r \in Reqs |-> NoRequest ]
  /\ pc = [ r \in Reqs |-> "new" ]
  /\ shortId = [ r \in Reqs |-> undefined ]
  /\ resp = [ r \in Reqs |-> NoResponse ]
  /\ store = << >>
  /\ put = [ r \in Reqs |-> NoPut ]
  /\ kvReads = [ r \in Reqs |-> 0 ]
  /\ kvPuts = [ r \in Reqs |-> 0 ]
  /\ getRejected = [ r \in Reqs |-> FALSE ]
  /\ writer = << >>
  /\ before = [ r \in Reqs |-> {} ]

\* The id a request names when it arrives: the path of a redirect, the
\* custom id of a create.
NamedId(req) ==
  IF req.method = "POST" THEN req.body.customId ELSE Slice1(req.pathname)

Created(id) == { q \in Reqs : resp[q].status = 201 /\ shortId[q] = id }

\* ------------------------------------------------------------------------
\* fetch: routing

\* The method tested together with the path: a request to /api/create that
\* is not a POST falls through to the redirect branch.
RouteMethodWithPath(req) ==
  LET path == Slice1(req.pathname) IN
  IF path = << >> \/ path = Slice1(IndexPath) THEN "serveStaticFile"
  ELSE IF path = Slice1(ApiCreatePath) /\ req.method = "POST" THEN "handleCreate"
       ELSE IF Truthy(path) THEN "handleRedirect" ELSE "404"

\* The branch of fetch a request takes.  The last branch (404 'Not Found')
\* needs a path that is neither '' nor non-empty, so no request takes it.
Route(req) ==
  LET path == Slice1(req.pathname) IN
  IF path = << >> \/ path = Slice1(IndexPath) THEN "serveStaticFile"
  ELSE IF path = Slice1(ApiCreatePath)
       THEN IF req.method = "POST" THEN "handleCreate" ELSE "405"
       ELSE IF Truthy(path) THEN "handleRedirect" ELSE "404"

\* Requests are numbered in the order they arrive.
Arrive(r, req) ==
  /\ pc[r] = "new"
  /\ \A q \in Reqs : q < r => pc[q] # "new"
  /\ request' = [request EXCEPT ![r] = req]
  /\ before' = [before EXCEPT ![r] = Created(NamedId(req))]

Return(r, response) ==
  /\ resp' = [resp EXCEPT ![r] = response]
  /\ pc' = [pc EXCEPT ![r] = "done"]

\* fetch -> serveStaticFile: the HTML page, status 200.
FetchStatic(r) ==
  \E req \in Requests :
    /\ Route(req) = "serveStaticFile"
    /\ Arrive(r, req)
    /\ Return(r, TextResponse(200, "html"))
    /\ UNCHANGED << shortId, store, put, kvReads, kvPuts, writer, getRejected >>

\* fetch -> 405 for /api/create with a method other than POST.
FetchMethodNotAllowed(r) ==
  \E req \in Requests :
    /\ Route(req) = "405"
    /\ Arrive(r, req)
    /\ Return(r, TextResponse(405, "Method not allowed"))
    /\ UNCHANGED << shortId, store, put, kvReads, kvPuts, writer, getRejected >>

\* fetch -> handleRedirect, up to the await of env.URL_KV.get(shortId).
FetchRedirect(r) ==
  \E req \in Requests :
    /\ Route(req) = "handleRedirect"
    /\ Arrive(r, req)
    /\ shortId' = [shortId EXCEPT ![r] = Slice1(req.pathname)]
    /\ kvReads' = [kvReads EXCEPT ![r] = @ + 1]
    /\ pc' = [pc EXCEPT ![r] = "lookup"]
    /\ UNCHANGED << resp, store, put, kvPuts, writer, getRejected >>

\* ------------------------------------------------------------------------
\* handleRedirect

\* A link that is removed from the store once it has been followed.
RedirectFoundOnce(r) ==
  LET longUrl == KVGet(store, shortId[r]) IN
  /\ pc[r] = "lookup"
  /\ Truthy(longUrl)
  /\ Return(r, Response(302, "", undefined, undefined, UrlHref(longUrl)))
  /\ store' = [ k \in DOMAIN store \ {shortId[r]} |-> store[k] ]
  /\ writer' = [ k \in DOMAIN store' |-> writer[k] ]
  /\ UNCHANGED << request, shortId, put, kvReads, kvPuts, before, getRejected >>

\* The get resolves to a truthy value: Response.redirect(longUrl, 302),
\* whose Location header is the serialized URL.
RedirectFound(r) ==
  LET longUrl == KVGet(store, shortId[r]) IN
  /\ pc[r] = "lookup"
  /\ Truthy(longUrl)
  /\ Return(r, Response(302, "", undefined, undefined, UrlHref(longUrl)))
  /\ UNCHANGED << request, shortId, store, put, kvReads, kvPuts, writer, before, getRejected >>

\* A missing link answered with the page of the root path.
RedirectNotFoundAsPage(r) ==
  LET longUrl == KVGet(store, shortId[r]) IN
  /\ pc[r] = "lookup"
  /\ ~Truthy(longUrl)
  /\ Return(r, TextResponse(200, "html"))
  /\ UNCHANGED << request, shortId, store, put, kvReads, kvPuts, writer, before, getRejected >>

\* The get resolves to null (or an empty value).
RedirectNotFound(r) ==
  LET longUrl == KVGet(store, shortId[r]) IN
  /\ pc[r] = "lookup"
  /\ ~Truthy(longUrl)
  /\ Return(r, TextResponse(404, "Short link not found"))
  /\ UNCHANGED << request, shortId, store, put, kvReads, kvPuts, writer, before, getRejected >>

\* A rejected get reported as a missing link.
RedirectThrowsNotFound(r) ==
  /\ pc[r] = "lookup"
  /\ getRejected' = [getRejected EXCEPT ![r] = TRUE]
  /\ Return(r, TextResponse(404, "Short link not found"))
  /\ UNCHANGED << request, shortId, store, put, kvReads, kvPuts, writer, before >>

\* The get rejects: the catch block answers 500.
RedirectThrows(r) ==
  /\ pc[r] = "lookup"
  /\ getRejected' = [getRejected EXCEPT ![r] = TRUE]
  /\ Return(r, TextResponse(500, "Internal Server Error"))
  /\ UNCHANGED << request, shortId, store, put, kvReads, kvPuts, writer, before >>

\* ------------------------------------------------------------------------
\* handleCreate
\*
\* A POST /api/create request runs from fetch through the await of
\* request.json() to the first response or the first store call.

\* The handler going on to the response without calling put.
WaitUntilPutNotIssued(r, key, value) ==
  /\ pc' = [pc EXCEPT ![r] = "respond"]
  /\ UNCHANGED << put, kvPuts >>

\* ctx.waitUntil(env.URL_KV.put(shortId, longUrl)): the put is issued and
\* not awaited; the handler goes on to build the 201 response.
WaitUntilPut(r, key, value) ==
  /\ put' = [put EXCEPT ![r] = [ state |-> "pending", key |-> key, value |-> value ]]
  /\ kvPuts' = [kvPuts EXCEPT ![r] = @ + 1]
  /\ pc' = [pc EXCEPT ![r] = "respond"]

\* request.json() rejects: the catch block answers 500.
CreateJsonThrows(r) ==
  \E req \in Requests :
    /\ Route(req) = "handleCreate"
    /\ Arrive(r, req)
    /\ ~req.body.parseable
    /\ Return(r, TextResponse(500, "Internal Server Error"))
    /\ UNCHANGED << shortId, store, writer, put, kvReads, kvPuts, getRejected >>

\* !this.isValidUrl(longUrl)
CreateInvalidUrl(r) ==
  \E req \in Requests :
    /\ Route(req) = "handleCreate"
    /\ Arrive(r, req)
    /\ req.body.parseable
    /\ ~isValidUrl(req.body.longUrl)
    /\ Return(r, TextResponse(400, "Invalid URL"))
    /\ UNCHANGED << shortId, store, writer, put, kvReads, kvPuts, getRejected >>

\* The generated id sent through the existence check of the custom ids.
CreateGenerateChecked(r) ==
  \E req \in Requests :
    /\ Route(req) = "handleCreate"
    /\ Arrive(r, req)
    /\ req.body.parseable
    /\ isValidUrl(req.body.longUrl)
    /\ ~Truthy(req.body.customId)
    /\ \E draws \in RandomDraws :
         shortId' = [shortId EXCEPT ![r] = generateRandomId(IdLength, draws)]
    /\ kvReads' = [kvReads EXCEPT ![r] = @ + 1]
    /\ pc' = [pc EXCEPT ![r] = "exists"]
    /\ UNCHANGED << resp, store, writer, put, kvPuts, getRejected >>

\* !shortId: the id is generated and stored without an existence check.
CreateGenerate(r) ==
  \E req \in Requests :
    /\ Route(req) = "handleCreate"
    /\ Arrive(r, req)
    /\ req.body.parseable
    /\ isValidUrl(req.body.longUrl)
    /\ ~Truthy(req.body.customId)
    /\ \E draws \in RandomDraws :
         /\ shortId' = [shortId EXCEPT ![r] = generateRandomId(IdLength, draws)]
         /\ WaitUntilPut(r, shortId'[r], req.body.longUrl)
    /\ UNCHANGED << resp, store, writer, kvReads, getRejected >>

\* The put issued before the custom id is validated.
CreateInvalidCustomIdAfterPut(r) ==
  \E req \in Requests :
    /\ Route(req) = "handleCreate"
    /\ Arrive(r, req)
    /\ req.body.parseable
    /\ isValidUrl(req.body.longUrl)
    /\ Truthy(req.body.customId)
    /\ ~CustomIdRegexTest(req.body.customId)
    /\ put' = [put EXCEPT ![r] = [ state |-> "pending", key |-> req.body.customId,
                                   value |-> req.body.longUrl ]]
    /\ kvPuts' = [kvPuts EXCEPT ![r] = @ + 1]
    /\ Return(r, TextResponse(400, "Custom ID can only contain letters, numbers, hyphens, and underscores"))
    /\ UNCHANGED << shortId, store, writer, kvReads, getRejected >>

\* The custom id fails the regular expression.
CreateInvalidCustomId(r) ==
  \E req \in Requests :
    /\ Route(req) = "handleCreate"
    /\ Arrive(r, req)
    /\ req.body.parseable
    /\ isValidUrl(req.body.longUrl)
    /\ Truthy(req.body.customId)
    /\ ~CustomIdRegexTest(req.body.customId)
    /\ Return(r, TextResponse(400, "Custom ID can only contain letters, numbers, hyphens, and underscores"))
    /\ UNCHANGED << shortId, store, writer, put, kvReads, kvPuts, getRejected >>

\* The custom id is well formed: up to the await of env.URL_KV.get(shortId).
CreateCheckExisting(r) ==
  \E req \in Requests :
    /\ Route(req) = "handleCreate"
    /\ Arrive(r, req)
    /\ req.body.parseable
    /\ isValidUrl(req.body.longUrl)
    /\ Truthy(req.body.customId)
    /\ CustomIdRegexTest(req.body.customId)
    /\ shortId' = [shortId EXCEPT ![r] = req.body.customId]
    /\ kvReads' = [kvReads EXCEPT ![r] = @ + 1]
    /\ pc' = [pc EXCEPT ![r] = "exists"]
    /\ UNCHANGED << resp, store, writer, put, kvPuts, getRejected >>

\* The result of the existence check ignored: the handler goes on to the put.
CreateConflictIgnored(r) ==
  LET existingUrl == KVGet(store, shortId[r]) IN
  /\ pc[r] = "exists"
  /\ Truthy(existingUrl)
  /\ WaitUntilPut(r, shortId[r], request[r].body.longUrl)
  /\ UNCHANGED << request, shortId, resp, store, writer, kvReads, before, getRejected >>

\* if (existingUrl): 409.
CreateConflict(r) ==
  LET existingUrl == KVGet(store, shortId[r]) IN
  /\ pc[r] = "exists"
  /\ Truthy(existingUrl)
  /\ Return(r, TextResponse(409, "Custom ID already exists"))
  /\ UNCHANGED << request, shortId, store, writer, put, kvReads, kvPuts, before, getRejected >>

\* existingUrl is null: the handler goes on to the put.
CreateNoConflict(r) ==
  LET existingUrl == KVGet(store, shortId[r]) IN
  /\ pc[r] = "exists"
  /\ ~Truthy(existingUrl)
  /\ WaitUntilPut(r, shortId[r], request[r].body.longUrl)
  /\ UNCHANGED << request, shortId, resp, store, writer, kvReads, before, getRejected >>

\* The get of the existence check rejects: the catch block answers 500.
CreateExistsThrows(r) ==
  /\ pc[r] = "exists"
  /\ getRejected' = [getRejected EXCEPT ![r] = TRUE]
  /\ Return(r, TextResponse(500, "Internal Server Error"))
  /\ UNCHANGED << request, shortId, store, writer, put, kvReads, kvPuts, before >>

\* The put awaited before the response is built.
CreateRespondAfterPut(r) ==
  /\ pc[r] = "respond"
  /\ put[r].state \in {"applied", "failed"}
  /\ Return(r, IF put[r].state = "applied"
               THEN Response(201, "", Origin \o <<"/">> \o shortId[r],
                             request[r].body.longUrl, undefined)
               ELSE TextResponse(500, "Internal Server Error"))
  /\ UNCHANGED << request, shortId, store, put, kvReads, kvPuts, writer, before, getRejected >>

\* The 201 response with { shortUrl, longUrl }.
CreateRespond(r) ==
  /\ pc[r] = "respond"
  /\ Return(r, Response(201, "", Origin \o <<"/">> \o shortId[r],
                        request[r].body.longUrl, undefined))
  /\ UNCHANGED << request, shortId, store, put, kvReads, kvPuts, writer, before, getRejected >>

\* ------------------------------------------------------------------------
\* The background write held by ctx.waitUntil

\* The put not handed to ctx.waitUntil: the runtime drops it with the request.
KVPutAbandoned(r) ==
  /\ put[r].state = "pending"
  /\ put' = [put EXCEPT ![r].state = "abandoned"]
  /\ UNCHANGED << request, pc, shortId, resp, store, writer, kvReads, kvPuts, before, getRejected >>

\* The put resolves: the value is written.
KVPutApply(r) ==
  /\ put[r].state = "pending"
  /\ store' = KVPut(store, put[r].key, put[r].value)
  /\ writer' = [ k \in DOMAIN store' |-> IF k = put[r].key THEN r ELSE writer[k] ]
  /\ put' = [put EXCEPT ![r].state = "applied"]
  /\ UNCHANGED << request, pc, shortId, resp, kvReads, kvPuts, before, getRejected >>

\* A put that rejects after it has written the value.
KVPutFailWrites(r) ==
  /\ put[r].state = "pending"
  /\ store' = KVPut(store, put[r].key, put[r].value)
  /\ writer' = [ k \in DOMAIN store' |-> IF k = put[r].key THEN r ELSE writer[k] ]
  /\ put' = [put EXCEPT ![r].state = "failed"]
  /\ UNCHANGED << request, pc, shortId, resp, kvReads, kvPuts, before, getRejected >>

\* The put rejects: nothing catches it and nothing retries it.
KVPutFail(r) ==
  /\ put[r].state = "pending"
  /\ put' = [put EXCEPT ![r].state = "failed"]
  /\ UNCHANGED << request, pc, shortId, resp, store, writer, kvReads, kvPuts, before, getRejected >>

\* ------------------------------------------------------------------------

Next ==
  \E r \in Reqs :
    \/ FetchStatic(r)
    \/ FetchMethodNotAllowed(r)
    \/ FetchRedirect(r)
    \/ RedirectFound(r)
    \/ RedirectNotFound(r)
    \/ RedirectThrows(r)
    \/ CreateJsonThrows(r)
    \/ CreateInvalidUrl(r)
    \/ CreateGenerate(r)
    \/ CreateInvalidCustomId(r)
    \/ CreateCheckExisting(r)
    \/ CreateConflict(r)
    \/ CreateNoConflict(r)
    \/ CreateExistsThrows(r)
    \/ CreateRespond(r)
    \/ KVPutApply(r)
    \/ KVPutFail(r)

Spec == Init /\ [][Next]_vars

\* The runtime keeps a task passed to ctx.waitUntil running after the
\* response is sent.
FairSpec == Spec /\ \A r \in Reqs : WF_vars(KVPutApply(r))

\* The step of the handler of r that follows a store read that completed
\* (resolved or rejected), and the step that returns the 201 response.
HandlerStep(r) ==
  \/ RedirectFound(r) \/ RedirectNotFound(r) \/ RedirectThrows(r)
  \/ CreateConflict(r) \/ CreateNoConflict(r) \/ CreateExistsThrows(r)
  \/ CreateRespond(r)

\* Every store read completes and the runtime runs the handler; nothing is
\* assumed of the puts.
LiveSpec == Spec /\ \A r \in Reqs : WF_vars(HandlerStep(r))

TypeOK ==
  /\ request \in [Reqs -> Requests \cup {NoRequest}]
  /\ pc \in [Reqs -> {"new", "exists", "respond", "lookup", "done"}]
  /\ \A r \in Reqs : put[r].state \in {"none", "pending", "applied", "failed"}
  /\ kvReads \in [Reqs -> 0..1]
  /\ kvPuts \in [Reqs -> 0..1]
  /\ getRejected \in [Reqs -> BOOLEAN]

\* ------------------------------------------------------------------------
\* Properties

IsCreate(r) == Route(request[r]) = "handleCreate"
IsRedirect(r) == Route(request[r]) = "handleRedirect"

\* A custom id is well formed when it is non-empty and made of letters,
\* digits, '_' and '-'.
WellFormedId(s) ==
  /\ s # undefined /\ s # null
  /\ Len(s) >= 1
  /\ \A i \in 1..Len(s) : IsAlpha(s[i]) \/ IsDigit(s[i]) \/ s[i] \in {"_", "-"}

InvalidCustomIdMessage ==
  "Custom ID can only contain letters, numbers, hyphens, and underscores"

\* C1: a mapping is never overwritten: a put is applied only to a key that
\* is not in the store, and a stored value never changes.
C1_NeverOverwritten ==
  [][ /\ \A r \in Reqs :
           (put[r].state = "pending" /\ put'[r].state = "applied")
              => put[r].key \notin DOMAIN store
      /\ \A k \in DOMAIN store : k \in DOMAIN store' /\ store'[k] = store[k] ]_vars

\* C2: a redirect request that arrives after a create of its id was answered
\* 201, and whose store read succeeds, is answered 302 with the created
\* longUrl as Location.
C2_RoundTrip ==
  \A q \in Reqs : \A r \in before[q] :
    (IsRedirect(q) /\ pc[q] = "done" /\ resp[q].status # 500)
      => (resp[q].status = 302 /\ resp[q].location = resp[r].longUrl)

\* C3: a create whose existence check reads a key that is in the store is
\* answered 409 'Custom ID already exists', issues no put and leaves the
\* store as it is.
C3_ConflictIs409 ==
  [][ \A r \in Reqs :
        /\ (pc[r] = "exists" /\ pc'[r] # "exists"
              /\ shortId[r] \in DOMAIN store /\ resp'[r].status # 500)
            => /\ resp'[r] = TextResponse(409, "Custom ID already exists")
               /\ store' = store
        /\ (resp[r].status = 409) => (kvPuts'[r] = 0 /\ put'[r] = NoPut) ]_vars

W_C3 ==
  \E r \in Reqs :
    /\ resp[r].status = 409
    /\ shortId[r] \in DOMAIN store
    /\ store[shortId[r]] # request[r].body.longUrl

\* C4: when two creates with the same custom id and different longUrls are
\* both answered 201 and both puts are applied, the store holds the longUrl
\* of the put applied last.
C4_LastWriteWins ==
  \A r1, r2 \in Reqs :
    ( /\ r1 # r2
      /\ IsCreate(r1) /\ IsCreate(r2)
      /\ request[r1].body.customId = request[r2].body.customId
      /\ WellFormedId(request[r1].body.customId)
      /\ request[r1].body.longUrl # request[r2].body.longUrl
      /\ resp[r1].status = 201 /\ resp[r2].status = 201
      /\ put[r1].state = "applied" /\ put[r2].state = "applied" )
    => LET k == request[r1].body.customId IN
       /\ k \in DOMAIN store
       /\ put[writer[k]].state = "applied"
       /\ store[k] = request[writer[k]].body.longUrl

\* Both creates passed the existence check, both were answered 201, and the
\* put of the second was applied before the put of the first.
W_C4 ==
  \E r1, r2 \in Reqs :
    /\ r1 < r2
    /\ IsCreate(r1) /\ IsCreate(r2)
    /\ request[r1].body.customId = IdA /\ request[r2].body.customId = IdA
    /\ request[r1].body.longUrl # request[r2].body.longUrl
    /\ kvReads[r1] = 1 /\ kvReads[r2] = 1
    /\ resp[r1].status = 201 /\ resp[r2].status = 201
    /\ put[r1].state = "applied" /\ put[r2].state = "applied"
    /\ writer[IdA] = r1
    /\ store[IdA] = request[r1].body.longUrl

\* C5: a 201 response is preceded by the issue of the put of the same
\* request, with the shortId and the longUrl the response names.
C5_PutIssuedBefore201 ==
  \A r \in Reqs :
    resp[r].status = 201
      => /\ kvPuts[r] >= 1
         /\ put[r].state # "none"
         /\ resp[r].shortUrl = Origin \o <<"/">> \o put[r].key
         /\ resp[r].longUrl = put[r].value

W_C5 == \E r \in Reqs : resp[r].status = 201 /\ put[r].state = "pending"

\* C6: a request answered 201 has issued exactly one put, a request answered
\* anything else has issued none, and no request issues more than one.
C6_OnePutPer201 ==
  \A r \in Reqs :
    /\ kvPuts[r] <= 1
    /\ pc[r] = "done" => kvPuts[r] = (IF resp[r].status = 201 THEN 1 ELSE 0)

W_C6 ==
  /\ \E r \in Reqs : resp[r].status = 201 /\ kvPuts[r] = 1
  /\ \E r \in Reqs : resp[r].status = 302 /\ kvPuts[r] = 0

\* C7: when the put of a request never fails, a 201 response is eventually
\* followed by the put being applied to the store.
C7_PutEventuallyApplied ==
  \A r \in Reqs :
    [](put[r].state # "failed")
      => ((resp[r].status = 201) ~> (put[r].state = "applied"))

\* The response was sent while the put was pending and the put was applied
\* afterwards: a redirect that arrived in between missed it.
W_C7 ==
  \E r, q \in Reqs :
    /\ resp[r].status = 201 /\ put[r].state = "applied"
    /\ r \in before[q] /\ resp[q].status = 404
    /\ store[shortId[q]] = resp[r].longUrl

\* C8 as stated: a supplied custom id that does not match the regular
\* expression, the empty string included, is answered 400 with the custom id
\* message, without a store read and without a put.
C8_SuppliedMalformedIdIs400 ==
  \A r \in Reqs :
    ( /\ IsCreate(r) /\ request[r].body.parseable
      /\ HasScheme(request[r].body.longUrl)
      /\ request[r].body.customId # undefined
      /\ ~WellFormedId(request[r].body.customId) )
    => /\ resp[r] = TextResponse(400, InvalidCustomIdMessage)
       /\ kvReads[r] = 0 /\ kvPuts[r] = 0 /\ put[r] = NoPut

\* C8 amended: a supplied, non-empty custom id that does not match the
\* regular expression is answered 400 with the custom id message, without
\* a store read and without a put.
C8_NonEmptyMalformedIdIs400 ==
  \A r \in Reqs :
    ( /\ IsCreate(r) /\ request[r].body.parseable
      /\ HasScheme(request[r].body.longUrl)
      /\ request[r].body.customId # undefined
      /\ request[r].body.customId # << >>
      /\ ~WellFormedId(request[r].body.customId) )
    => /\ resp[r] = TextResponse(400, InvalidCustomIdMessage)
       /\ kvReads[r] = 0 /\ kvPuts[r] = 0 /\ put[r] = NoPut

W_C8 ==
  \E r \in Reqs :
    /\ request[r].body.customId = BadId
    /\ resp[r] = TextResponse(400, InvalidCustomIdMessage)

\* C9: a create whose body is not parseable JSON is answered 400, without a
\* store read and without a put.
C9_MalformedJsonIs400 ==
  \A r \in Reqs :
    (IsCreate(r) /\ ~request[r].body.parseable /\ pc[r] = "done")
      => (resp[r].status = 400 /\ kvReads[r] = 0 /\ kvPuts[r] = 0)

\* C10: a create whose longUrl does not parse is answered 400 'Invalid URL'
\* whatever its custom id, without a store read and without a put.
C10_InvalidUrlIs400 ==
  \A r \in Reqs :
    (IsCreate(r) /\ request[r].body.parseable /\ ~HasScheme(request[r].body.longUrl))
      => /\ resp[r] = TextResponse(400, "Invalid URL")
         /\ kvReads[r] = 0 /\ kvPuts[r] = 0 /\ put[r] = NoPut

\* An invalid URL posted with a custom id that is already a key.
W_C10 ==
  \E r \in Reqs :
    /\ request[r].body.longUrl = NotAUrl
    /\ request[r].body.customId = IdA
    /\ IdA \in DOMAIN store
    /\ resp[r] = TextResponse(400, "Invalid URL")

InternalServerError == TextResponse(500, "Internal Server Error")

\* The requests that were given or that generated the id: the creates that
\* issued a put of it.
CreatesOf(id) == { r \in Reqs : put[r].state # "none" /\ put[r].key = id }

\* C11: a redirect for an id that no create was given or generated, whose
\* store read succeeds, is answered 404 'Short link not found', whatever
\* creates and redirects of other ids have run.
C11_UnknownIdIs404 ==
  \A q \in Reqs :
    (IsRedirect(q) /\ pc[q] = "done" /\ ~getRejected[q] /\ CreatesOf(shortId[q]) = {})
      => resp[q] = TextResponse(404, "Short link not found")

\* A create of another id was applied and a redirect of it answered 302
\* before the unknown id was answered 404.
W_C11 ==
  \E q, r \in Reqs :
    /\ IsRedirect(q) /\ resp[q].status = 404
    /\ CreatesOf(shortId[q]) = {}
    /\ put[r].state = "applied" /\ put[r].key # shortId[q]
    /\ put[r].key \in DOMAIN store

C13_ReadFailureIs500 ==
  \A r \in Reqs :
    getRejected[r]
      => /\ resp[r] = InternalServerError
         /\ kvPuts[r] = 0 /\ put[r] = NoPut

\* A redirect and a create whose reads rejected, the id being in the store.
W_C13 ==
  \E q, r \in Reqs :
    /\ IsRedirect(q) /\ getRejected[q] /\ resp[q].status = 500
    /\ IsCreate(r) /\ getRejected[r] /\ resp[r].status = 500

\* A create with a valid longUrl and no custom id.
IsGenerated(r) ==
  /\ request[r].method = "POST" /\ request[r].pathname = ApiCreatePath
  /\ request[r].body.parseable
  /\ HasScheme(request[r].body.longUrl)
  /\ request[r].body.customId = undefined

\* The 62 symbols a-z, A-Z, 0-9.
Alphabet62 ==
  { "a","b","c","d","e","f","g","h","i","j","k","l","m",
    "n","o","p","q","r","s","t","u","v","w","x","y","z",
    "A","B","C","D","E","F","G","H","I","J","K","L","M",
    "N","O","P","Q","R","S","T","U","V","W","X","Y","Z",
    "0","1","2","3","4","5","6","7","8","9" }

\* C14: a create with a valid longUrl and no custom id gets a shortId of
\* exactly 6 characters of the 62-symbol alphabet and is answered 201 with
\* shortUrl = origin + '/' + shortId and the longUrl it was given.
C14_GeneratedIdAnd201 ==
  \A r \in Reqs :
    IsGenerated(r)
      => /\ Len(shortId[r]) = 6
         /\ \A i \in 1..Len(shortId[r]) : shortId[r][i] \in Alphabet62
         /\ pc[r] \in {"respond", "done"}
         /\ pc[r] = "done"
              => resp[r] = Response(201, "", Origin \o <<"/">> \o shortId[r],
                                    request[r].body.longUrl, undefined)

W_C14 ==
  \E r \in Reqs :
    /\ IsGenerated(r)
    /\ shortId[r] = Id9
    /\ resp[r].status = 201
    /\ resp[r].shortUrl = Origin \o <<"/">> \o Id9

\* C15: a request to /api/create with a method other than POST is answered
\* 405 without a store read or a put, and is never handled as a redirect of
\* the id 'api/create'.
C15_OtherMethodIs405 ==
  \A r \in Reqs :
    (request[r].pathname = ApiCreatePath /\ request[r].method # "POST")
      => /\ resp[r] = TextResponse(405, "Method not allowed")
         /\ kvReads[r] = 0 /\ kvPuts[r] = 0 /\ put[r] = NoPut
         /\ shortId[r] = undefined

\* A DELETE and a GET of /api/create, both answered 405.
W_C15 ==
  \E r, q \in Reqs :
    /\ request[r].pathname = ApiCreatePath /\ request[r].method = "DELETE"
    /\ request[q].pathname = ApiCreatePath /\ request[q].method = "GET"
    /\ resp[r].status = 405 /\ resp[q].status = 405

\* A create with a valid longUrl and no custom id or an empty one.
HasNoCustomId(r) ==
  /\ request[r].method = "POST" /\ request[r].pathname = ApiCreatePath
  /\ request[r].body.parseable
  /\ HasScheme(request[r].body.longUrl)
  /\ request[r].body.customId \in { undefined, << >> }

\* C16: a create without custom id never reads the store, is answered 201
\* also when its id is a key of the store, and its put then replaces the
\* value stored at that key.
C16_GeneratedIdOverwrites ==
  [][ \A r \in Reqs :
        /\ HasNoCustomId(r)'
            => /\ kvReads'[r] = 0
               /\ pc'[r] = "done" => resp'[r].status = 201
        /\ (HasNoCustomId(r) /\ put[r].state = "pending" /\ put'[r].state = "applied")
            => /\ put[r].key \in DOMAIN store'
               /\ store'[put[r].key] = request[r].body.longUrl ]_vars

\* The generated id was a key holding another URL when the put was applied;
\* the create is answered 201 and the store holds its longUrl.
W_C16 ==
  \E r, r0 \in Reqs :
    /\ r0 # r
    /\ HasNoCustomId(r)
    /\ put[r0].state = "applied" /\ put[r].state = "applied"
    /\ put[r0].key = put[r].key
    /\ put[r0].value # put[r].value
    /\ writer[put[r].key] = r
    /\ resp[r].status = 201
    /\ store[put[r].key] = request[r].body.longUrl

\* C17: a put that failed stays failed and is not issued again, the create
\* is answered 201 all the same, and the failing put leaves the store as
\* it was.
C17_FailedPutNotRetried ==
  [][ \A r \in Reqs :
        /\ (put[r].state = "pending" /\ put'[r].state = "failed") => store' = store
        /\ put[r].state = "failed"
            => /\ put'[r] = put[r]
               /\ kvPuts[r] = 1 /\ kvPuts'[r] = 1
               /\ pc[r] \in {"respond", "done"}
               /\ pc'[r] = "done" => resp'[r].status = 201 ]_vars

\* The put failed, the create was answered 201, and a redirect of the id
\* that arrived afterwards was answered 404, the store holding nothing for it.
W_C17 ==
  \E r, q \in Reqs :
    /\ put[r].state = "failed" /\ resp[r].status = 201
    /\ IsRedirect(q) /\ r \in before[q]
    /\ shortId[q] = put[r].key
    /\ shortId[q] \notin DOMAIN store
    /\ resp[q].status = 404

\* C18: when its store read completes, every request is answered, also when
\* its put never completes; a request is not answered while its store read
\* is outstanding.
C18_EveryRequestAnswered ==
  /\ \A r \in Reqs : (pc[r] # "new") ~> (pc[r] = "done" /\ resp[r] # NoResponse)
  /\ [](\A r \in Reqs : pc[r] \in {"lookup", "exists"} => resp[r] = NoResponse)

\* Every request is answered; a create that waited for its existence check
\* was answered 201 with its put still pending.
W_C18 ==
  /\ \A q \in Reqs : pc[q] = "done"
  /\ \E r \in Reqs :
       kvReads[r] = 1 /\ resp[r].status = 201 /\ put[r].state = "pending"

ReservedPaths == { << >>, Slice1(IndexPath), Slice1(ApiCreatePath) }

\* C19: every key of the store is a non-empty string over [A-Za-z0-9_-] and
\* every value a URL that parses; no key is a reserved path and GET /key is
\* routed to handleRedirect.
C19_StoreWellFormed ==
  \A k \in DOMAIN store :
    /\ WellFormedId(k)
    /\ HasScheme(store[k])
    /\ k \notin ReservedPaths
    /\ Route([ method |-> "GET", pathname |-> <<"/">> \o k, body |-> NoBody ])
         = "handleRedirect"

\* A custom id and a generated id are keys of the store.
W_C19 ==
  /\ DOMAIN store = { IdA, Id9 }
  /\ \E r \in Reqs : request[r].body.customId = IdA /\ writer[IdA] = r
  /\ \E r \in Reqs : HasNoCustomId(r) /\ writer[Id9] = r

\* C20: a create with a valid longUrl and a custom id that arrives after a
\* create with the same custom id was answered 201, and whose store read
\* succeeds, is answered 409 and issues no put.
C20_SequentialCreatesConflict ==
  \A q \in Reqs : \A r \in before[q] :
    ( /\ IsCreate(q) /\ IsCreate(r)
      /\ HasScheme(request[q].body.longUrl)
      /\ WellFormedId(request[q].body.customId)
      /\ request[r].body.customId = request[q].body.customId
      /\ pc[q] = "done" /\ ~getRejected[q] )
    => (resp[q].status = 409 /\ kvPuts[q] = 0)
====
